---- MODULE Spec2Model ----
(***************************************************************************)
(* MCP Subfinder Server: the JSON-RPC dispatcher (package mcp, the two     *)
(* HTTP handlers mcpHandler of package main and MCPHandler of package      *)
(* server) and the enumeration orchestrator (subfinder.RunEnumeration).    *)
(*                                                                         *)
(* Host names are sequences of ASCII codes, so that strings.EqualFold,     *)
(* sort.Strings, string concatenation and base64 are computed, not         *)
(* assumed; the raw JSON text of an id is such a sequence too.  Method     *)
(* names, tool names and error messages are TLA+ strings (only equality is *)
(* taken of them).                                                         *)
(***************************************************************************)
EXTENDS Integers, Sequences, FiniteSets, TLC

VARIABLES
  pc,            \* position of the one request in service
  handler,       \* "mcpHandler" (package main) or "MCPHandler" (package server)
  http,          \* the inbound HTTP request
  reqs,          \* the decoded Request structs still owned by the handler
  idx,           \* index of the batch element in service
  responses,     \* the Response structs collected so far (batchResponse / response)
  answers,       \* history: responses[k] answers element answers[k] (0: no element)
  out,           \* what was written to the http.ResponseWriter
  ctx,           \* state of the context handed to HandleToolsCall
  domain,        \* RunEnumeration: the queried domain
  config,        \* RunEnumeration: the SubfinderConfig
  handed,        \* history: the SubfinderConfig as HandleToolsCall passed it
  sawDone,       \* history: the select of the retry loop found ctx.Done() closed
  allEmpty,      \* history: every attempt so far gave no result, no error, on a live context
  callLog,       \* history: what the provider returned to each attempt of this call
  pauses,        \* history: the pauses this call slept between attempts
  probeLog,      \* history: what the provider returned to each recursive probe
  recursiveCtx,  \* RunEnumeration: the context of the recursive probe
  attempt,       \* RunEnumeration: the retry loop's counter
  resultMap,     \* RunEnumeration: keys of the last attempt's result map
  enumErr,       \* RunEnumeration: the last attempt's error
  subdomains,    \* RunEnumeration: the slice being built
  allSubdomains, \* RunEnumeration: the set accumulated by recursion
  recIdx,        \* RunEnumeration: index i of the recursive loop
  ret,           \* RunEnumeration: the returned pair
  primaryCalls,  \* history: provider calls of the retry loop, this HTTP request
  recProbes,     \* history: names probed recursively, this tools.call
  returns        \* history: what RunEnumeration returned, per element served

vars == <<pc, handler, http, reqs, idx, responses, answers, out, ctx, domain,
          config, handed, sawDone, allEmpty, callLog, pauses, probeLog, recursiveCtx, attempt, resultMap, enumErr, subdomains, allSubdomains,
          recIdx, ret, primaryCalls, recProbes, returns>>

(***************************************************************************)
(* Bounds of the model.                                                    *)
(***************************************************************************)
MaxBatch == 2

(***************************************************************************)
(* Strings of the orchestrator.                                            *)
(***************************************************************************)
\* unicode.ToLower restricted to ASCII, the folding strings.EqualFold applies
ToLower(c) == IF c >= 65 /\ c <= 90 THEN c + 32 ELSE c

EqualFold(a, b) ==
  /\ Len(a) = Len(b)
  /\ \A i \in 1..Len(a) : ToLower(a[i]) = ToLower(b[i])

\* Go's < on strings: byte-wise lexicographic
RECURSIVE StringLess(_, _)
StringLess(a, b) ==
  IF b = <<>> THEN FALSE
  ELSE IF a = <<>> THEN TRUE
  ELSE IF Head(a) # Head(b) THEN Head(a) < Head(b)
  ELSE StringLess(Tail(a), Tail(b))

\* sort.Strings applied to the elements of a set of distinct strings: the
\* string with i - 1 strings of the set below it comes i-th
SortStrings(S) ==
  [i \in 1..Cardinality(S) |->
     CHOOSE s \in S : Cardinality({t \in S : StringLess(t, s)}) = i - 1]

Range(s) == {s[i] : i \in 1..Len(s)}

\* prefix + "." + domain
Dot(prefix, name) == prefix \o <<46>> \o name

\* "www", "mail", "api", "dev", "blog", "shop", "app", "support", "help", "portal"
commonPrefixes ==
  << <<119, 119, 119>>, <<109, 97, 105, 108>>, <<97, 112, 105>>,
     <<100, 101, 118>>, <<98, 108, 111, 103>>, <<115, 104, 111, 112>>,
     <<97, 112, 112>>, <<115, 117, 112, 112, 111, 114, 116>>,
     <<104, 101, 108, 112>>, <<112, 111, 114, 116, 97, 108>> >>

(***************************************************************************)
(* Names used as inputs: the queried domain and what the provider may      *)
(* report.                                                                 *)
(***************************************************************************)
DomEx   == <<101, 120, 46, 105, 111>>            \* "ex.io"
DomExUp == <<69, 88, 46, 105, 111>>              \* "EX.io"
SubA    == Dot(<<97>>, DomEx)                    \* "a.ex.io"
SubAUp  == Dot(<<65>>, DomEx)                    \* "A.ex.io"
SubB    == Dot(<<98>>, DomEx)                    \* "b.ex.io"
\* "c.ex.io" ... "m.ex.io": one name more than the recursion re-queries
ManySubs == {Dot(<<c>>, DomEx) : c \in 99..109}

(***************************************************************************)
(* JSON values of a request.  A member of the arguments object is a record *)
(* [kind, num, half, str, bool]: a number is num, or num + 0.5 when half   *)
(* (encoding/json and jsoniter decode every number of an interface{} as    *)
(* float64); a string is a sequence of ASCII codes.                        *)
(***************************************************************************)
JAbsent  == [kind |-> "absent", num |-> 0, half |-> FALSE, str |-> <<>>, bool |-> FALSE]
JNum(n)  == [kind |-> "number", num |-> n, half |-> FALSE, str |-> <<>>, bool |-> FALSE]
JHalf(n) == [kind |-> "number", num |-> n, half |-> TRUE, str |-> <<>>, bool |-> FALSE]
JStr(s)  == [kind |-> "string", num |-> 0, half |-> FALSE, str |-> s, bool |-> FALSE]
JBool(b) == [kind |-> "bool", num |-> 0, half |-> FALSE, str |-> <<>>, bool |-> b]

\* the "arguments" member of tools.call params: absent, a JSON object, or a
\* JSON value that is no object ("scalar")
Args(k, d, t, m, r) ==
  [kind |-> k, domain |-> d, timeout |-> t, maxDepth |-> m,
   sourcesFilter |-> JAbsent, excludeSourcesFilter |-> JAbsent, recursive |-> r]

NoArgs     == Args("absent", JAbsent, JAbsent, JAbsent, JAbsent)
ScalarArgs == Args("scalar", JAbsent, JAbsent, JAbsent, JAbsent)
ObjArgs(d, t, m, r) == Args("object", d, t, m, r)

\* the "params" member of a request; protocolVersion and name are a string,
\* "<absent>" (no such member) or "<number>" (a member that is no string)
Params(k, pv, nm, a) ==
  [kind |-> k, protocolVersion |-> pv, name |-> nm, arguments |-> a]

NoParams     == Params("absent", "<absent>", "<absent>", NoArgs)
ScalarParams == Params("scalar", "<absent>", "<absent>", NoArgs)
InitParams(pv)    == Params("object", pv, "<absent>", NoArgs)
CallParams(nm, a) == Params("object", "<absent>", nm, a)

\* one JSON value offered as a request: an object with these members, or a
\* value that does not decode into the Request struct ("scalar"); id is the
\* raw JSON text of the id member, empty when there is none
Elem(k, id, method, params) ==
  [kind |-> k, id |-> id, method |-> method, params |-> params]

(***************************************************************************)
(* Protocol types (package mcp).                                           *)
(***************************************************************************)
SupportedProtocolVersion == "0.3"

ParseErrorCode     == -32700
InvalidRequestCode == -32600
MethodNotFoundCode == -32601
InvalidParamsCode  == -32602
InternalErrorCode  == -32603

\* a nil pointer / nil interface of the Response struct
Nil == [type |-> "nil"]

\* a nil *RawMessage: no bytes
NilID == <<>>

\* raw JSON texts of an id member: none, null, 1, 2
AbsentID == <<>>
NullID   == <<110, 117, 108, 108>>
ID1      == <<49>>
ID2      == <<50>>

RPCError(code, message) == [type |-> "RPCError", code |-> code, message |-> message]

ErrParse          == RPCError(ParseErrorCode, <<"Parse error">>)
ErrInvalidRequest == RPCError(InvalidRequestCode, <<"Invalid Request">>)
ErrMethodNotFound == RPCError(MethodNotFoundCode, <<"Method not found">>)
ErrInvalidParams  == RPCError(InvalidParamsCode, <<"Invalid params">>)
ErrInternal       == RPCError(InternalErrorCode, <<"Internal error">>)

Response(jsonrpc, id, result, error) ==
  [JSONRPC |-> jsonrpc, ID |-> id, Result |-> result, Error |-> error]

\* Response{}: the zero value
ZeroResponse == Response("", NilID, Nil, Nil)

\* jsoniter.Unmarshal into a Request: the id member is a *RawMessage, nil when
\* the member is absent or null; a missing method is the empty string
DecodeID(id) == IF id = AbsentID \/ id = NullID THEN NilID ELSE id

Request(e) ==
  [ID |-> DecodeID(e.id),
   Method |-> IF e.method = "<absent>" THEN "" ELSE e.method,
   Params |-> e.params]

(***************************************************************************)
(* Handlers of package mcp.                                                *)
(***************************************************************************)
\* jsoniter.Unmarshal(req.Params, &InitializeParams{}): fails on empty input,
\* on a value that is no object and on a protocolVersion that is no string
InitializeParamsOK(p) ==
  /\ p.kind \in {"null", "object"}
  /\ p.protocolVersion # "<number>"

ProtocolVersionOf(p) ==
  IF p.kind = "object" /\ p.protocolVersion # "<absent>" THEN p.protocolVersion ELSE ""

InitializeResult ==
  [type |-> "InitializeResult", name |-> "MCP Subfinder Server",
   version |-> "1.0.0", protocolVersion |-> SupportedProtocolVersion]

UnsupportedVersionMessage(pv) ==
  <<"Unsupported protocol version: ", pv, ". Server supports: ", SupportedProtocolVersion>>

HandleInitialize(req) ==
  IF ~InitializeParamsOK(req.Params)
  THEN Response("2.0", req.ID, Nil, ErrParse)
  ELSE IF ProtocolVersionOf(req.Params) # SupportedProtocolVersion
  THEN Response("2.0", req.ID, Nil,
                RPCError(InvalidParamsCode,
                         UnsupportedVersionMessage(ProtocolVersionOf(req.Params))))
  ELSE Response("2.0", req.ID, InitializeResult, Nil)

\* variant: the tool listed under another name, with a second required argument
subdomainToolRenamed ==
  [Name |-> "findSubdomains",
   Title |-> "Enumerate Subdomains",
   properties |-> {"domain", "timeout", "maxDepth", "sourcesFilter",
                   "excludeSourcesFilter", "recursive"},
   defaultTimeout |-> 60,
   defaultMaxDepth |-> 1,
   defaultRecursive |-> FALSE,
   required |-> {"domain", "timeout"},
   RequiresAPIKeys |-> TRUE]

\* the one tool of the registry, with what its input schema declares
subdomainTool ==
  [Name |-> "enumerateSubdomains",
   Title |-> "Enumerate Subdomains",
   properties |-> {"domain", "timeout", "maxDepth", "sourcesFilter",
                   "excludeSourcesFilter", "recursive"},
   defaultTimeout |-> 60,
   defaultMaxDepth |-> 1,
   defaultRecursive |-> FALSE,
   required |-> {"domain"},
   RequiresAPIKeys |-> TRUE]

HandleToolsList(req) ==
  Response("2.0", req.ID, [type |-> "ToolsListResult", tools |-> <<subdomainTool>>], Nil)

\* jsoniter.Unmarshal(req.Params, &ToolCallParams{}): fails on empty input, on
\* a value that is no object, on a name that is no string and on arguments
\* that are no object
ToolCallParamsOK(p) ==
  /\ p.kind \in {"null", "object"}
  /\ p.name # "<number>"
  /\ p.arguments.kind # "scalar"

ToolNameOf(p) == IF p.kind = "object" /\ p.name # "<absent>" THEN p.name ELSE ""

\* params.Arguments: nil (no key is found in it) unless arguments is an object
ArgumentOf(p, key) ==
  IF p.kind = "object" /\ p.arguments.kind = "object" THEN p.arguments[key] ELSE JAbsent

\* v.(float64) succeeded and v > 0
PositiveNumber(v) == v.kind = "number" /\ (v.num > 0 \/ (v.num = 0 /\ v.half))

\* int(v) of a positive float64: truncation
IntOf(v) == v.num

\* variant: the defaults of the README's option table
DefaultConfigOfReadme ==
  [Timeout |-> 120, MaxDepth |-> 2, SourcesFilter |-> <<>>,
   ExcludeSourcesFilter |-> <<>>, Recursive |-> FALSE]

DefaultConfig ==
  [Timeout |-> 60, MaxDepth |-> 1, SourcesFilter |-> <<>>,
   ExcludeSourcesFilter |-> <<>>, Recursive |-> FALSE]

\* HandleToolsCall, the optional arguments: a present value of the wrong type
\* or range leaves the default
ConfigOf(p) ==
  LET t  == ArgumentOf(p, "timeout")
      m  == ArgumentOf(p, "maxDepth")
      sf == ArgumentOf(p, "sourcesFilter")
      xf == ArgumentOf(p, "excludeSourcesFilter")
      r  == ArgumentOf(p, "recursive")
  IN [Timeout  |-> IF PositiveNumber(t) THEN IntOf(t) ELSE DefaultConfig.Timeout,
      MaxDepth |-> IF PositiveNumber(m) THEN IntOf(m) ELSE DefaultConfig.MaxDepth,
      SourcesFilter |-> IF sf.kind = "string" /\ sf.str # <<>> THEN sf.str
                        ELSE DefaultConfig.SourcesFilter,
      ExcludeSourcesFilter |-> IF xf.kind = "string" /\ xf.str # <<>> THEN xf.str
                               ELSE DefaultConfig.ExcludeSourcesFilter,
      Recursive |-> IF r.kind = "bool" THEN r.bool ELSE DefaultConfig.Recursive]

\* variant: the tool name looked at only after the domain
ToolsCallErrorNameAfterDomain(req) ==
  LET p == req.Params
      d == ArgumentOf(p, "domain") IN
  IF ~ToolCallParamsOK(p) THEN ErrParse
  ELSE IF d.kind = "absent" THEN ErrInvalidParams
  ELSE IF d.kind # "string" \/ d.str = <<>> THEN ErrInvalidParams
  ELSE IF ToolNameOf(p) # "enumerateSubdomains" THEN ErrMethodNotFound
  ELSE Nil

\* variant: an empty domain let through
ToolsCallErrorEmptyDomainAccepted(req) ==
  LET p == req.Params
      d == ArgumentOf(p, "domain") IN
  IF ~ToolCallParamsOK(p) THEN ErrParse
  ELSE IF ToolNameOf(p) # "enumerateSubdomains" THEN ErrMethodNotFound
  ELSE IF d.kind = "absent" THEN ErrInvalidParams
  ELSE IF d.kind # "string" THEN ErrInvalidParams
  ELSE Nil

\* variant: the tool name is not looked at
ToolsCallErrorAnyTool(req) ==
  LET p == req.Params
      d == ArgumentOf(p, "domain") IN
  IF ~ToolCallParamsOK(p) THEN ErrParse
  ELSE IF d.kind = "absent" THEN ErrInvalidParams
  ELSE IF d.kind # "string" \/ d.str = <<>> THEN ErrInvalidParams
  ELSE Nil

\* HandleToolsCall up to the call of RunEnumeration: the RPC error it returns
\* early, Nil when the enumeration is to run
ToolsCallError(req) ==
  LET p == req.Params
      d == ArgumentOf(p, "domain") IN
  IF ~ToolCallParamsOK(p) THEN ErrParse
  ELSE IF ToolNameOf(p) # "enumerateSubdomains" THEN ErrMethodNotFound
  ELSE IF d.kind = "absent" THEN ErrInvalidParams
  ELSE IF d.kind # "string" \/ d.str = <<>> THEN ErrInvalidParams
  ELSE Nil

\* strings.Join(elems, "\n")
RECURSIVE Join(_)
Join(elems) ==
  IF Len(elems) = 0 THEN <<>>
  ELSE IF Len(elems) = 1 THEN elems[1]
  ELSE elems[1] \o <<10>> \o Join(Tail(elems))

\* fmt's %d of a non-negative int
RECURSIVE Itoa(_)
Itoa(n) == IF n < 10 THEN <<48 + n>> ELSE Itoa(n \div 10) \o <<48 + (n % 10)>>

\* the alphabet of base64.StdEncoding
Base64Char(v) ==
  IF v < 26 THEN 65 + v
  ELSE IF v < 52 THEN 97 + (v - 26)
  ELSE IF v < 62 THEN 48 + (v - 52)
  ELSE IF v = 62 THEN 43 ELSE 47

\* base64.StdEncoding.EncodeToString, with its = padding
RECURSIVE Base64(_)
Base64(b) ==
  IF Len(b) = 0 THEN <<>>
  ELSE IF Len(b) = 1
  THEN <<Base64Char(b[1] \div 4), Base64Char((b[1] % 4) * 16), 61, 61>>
  ELSE IF Len(b) = 2
  THEN <<Base64Char(b[1] \div 4), Base64Char((b[1] % 4) * 16 + (b[2] \div 16)),
         Base64Char((b[2] % 16) * 4), 61>>
  ELSE <<Base64Char(b[1] \div 4), Base64Char((b[1] % 4) * 16 + (b[2] \div 16)),
         Base64Char((b[2] % 16) * 4 + (b[3] \div 64)), Base64Char(b[3] % 64)>>
       \o Base64(SubSeq(b, 4, Len(b)))

\* fmt.Sprintf("Successfully enumerated %d subdomains for %s", n, dom)
SummaryText(n, dom) ==
  <<83, 117, 99, 99, 101, 115, 115, 102, 117, 108, 108, 121, 32, 101, 110, 117, 109, 101, 114, 97, 116, 101, 100, 32>> \o Itoa(n)
  \o <<32, 115, 117, 98, 100, 111, 109, 97, 105, 110, 115, 32, 102, 111, 114, 32>> \o dom

\* fmt.Sprintf("Found %d subdomains for %s:\n\n%s", n, dom, strings.Join(subs, "\n"))
ResultText(n, dom, subs) ==
  <<70, 111, 117, 110, 100, 32>> \o Itoa(n)
  \o <<32, 115, 117, 98, 100, 111, 109, 97, 105, 110, 115, 32, 102, 111, 114, 32>> \o dom
  \o <<58, 10, 10>> \o Join(subs)

ContentItem(text) == [Type |-> "text", Text |-> text]
ResourceItem(mime, blob) == [Type |-> "resource", MimeType |-> mime, Blob |-> blob]

ToolCallResult(content, isError) ==
  [type |-> "ToolCallResult", Content |-> content, IsError |-> isError]

\* variant: an enumeration error reported as an RPC error
ToolsCallResultErrorAsRPCError(req, dom, r) ==
  IF r.err # <<>>
  THEN Response("2.0", req.ID, Nil, ErrInternal)
  ELSE Response("2.0", req.ID,
         ToolCallResult(
           << ContentItem(SummaryText(Len(r.subdomains), dom)),
              ResourceItem("text/plain",
                Base64(ResultText(Len(r.subdomains), dom, r.subdomains))) >>,
           FALSE),
         Nil)

\* variant: success reported without the resource item
ToolsCallResultOneItem(req, dom, r) ==
  IF r.err # <<>>
  THEN Response("2.0", req.ID,
         ToolCallResult(
           << ContentItem(<<"Subdomain enumeration failed: ">> \o r.err) >>, TRUE),
         Nil)
  ELSE Response("2.0", req.ID,
         ToolCallResult(
           << ContentItem(SummaryText(Len(r.subdomains), dom)) >>,
           FALSE),
         Nil)

\* HandleToolsCall after RunEnumeration returned r = (subdomains, err)
ToolsCallResult(req, dom, r) ==
  IF r.err # <<>>
  THEN Response("2.0", req.ID,
         ToolCallResult(
           << ContentItem(<<"Subdomain enumeration failed: ">> \o r.err) >>, TRUE),
         Nil)
  ELSE Response("2.0", req.ID,
         ToolCallResult(
           << ContentItem(SummaryText(Len(r.subdomains), dom)),
              ResourceItem("text/plain",
                Base64(ResultText(Len(r.subdomains), dom, r.subdomains))) >>,
           FALSE),
         Nil)

KnownMethods == {"initialize", "tools.list", "tools.call"}

\* a request that makes HandleToolsCall call RunEnumeration
RunsEnumeration(req) == req.Method = "tools.call" /\ ToolsCallError(req) = Nil

\* ProcessSingleRequest for a request that does not reach RunEnumeration
ProcessImmediate(req) ==
  IF req.Method = "initialize" THEN HandleInitialize(req)
  ELSE IF req.Method = "tools.list" THEN HandleToolsList(req)
  ELSE IF req.Method = "tools.call" THEN Response("2.0", req.ID, Nil, ToolsCallError(req))
  ELSE IF req.ID = NilID THEN ZeroResponse
  ELSE Response("2.0", req.ID, Nil, ErrMethodNotFound)

\* the switch of server.MCPHandler for a request that does not reach
\* RunEnumeration; response.JSONRPC = "2.0" is set afterwards
ServerImmediate(req) ==
  IF req.Method = "initialize" THEN HandleInitialize(req)
  ELSE IF req.Method = "tools.list" THEN HandleToolsList(req)
  ELSE IF req.Method = "tools.call" THEN Response("2.0", req.ID, Nil, ToolsCallError(req))
  ELSE Response("2.0", req.ID, Nil, ErrMethodNotFound)

(***************************************************************************)
(* Encoding of a Response on the wire.  A JSON object is a function from   *)
(* its member names: omitempty drops a nil id, result and error.           *)
(***************************************************************************)
Members(resp) ==
  {"jsonrpc"} \cup (IF resp.ID # NilID THEN {"id"} ELSE {})
              \cup (IF resp.Result # Nil THEN {"result"} ELSE {})
              \cup (IF resp.Error # Nil THEN {"error"} ELSE {})

\* jsoniter's encoder writes a jsoniter.RawMessage as the raw JSON it holds
RawID(id) == id

\* encoding/json knows jsoniter.RawMessage only as a []byte: base64 text
Base64ID(id) == <<34>> \o Base64(id) \o <<34>>

WireObject(resp, id) ==
  [k \in Members(resp) |->
     IF k = "jsonrpc" THEN resp.JSONRPC
     ELSE IF k = "id" THEN id
     ELSE IF k = "result" THEN resp.Result
     ELSE resp.Error]

\* jsoniter.NewEncoder(w).Encode(resp), of writeResponse
EncodeJsoniter(resp) ==
  WireObject(resp, IF resp.ID = NilID THEN NilID ELSE RawID(resp.ID))

\* json.Marshal(response), of server.MCPHandler
EncodeStdJSON(resp) ==
  WireObject(resp, IF resp.ID = NilID THEN NilID ELSE Base64ID(resp.ID))

(***************************************************************************)
(* The HTTP request and what is written back.                              *)
(***************************************************************************)
\* body: lead (whitespace before the first token), shape ("array", "value":
\* any other JSON value, "empty": no bytes), wellFormed, and the elements
\* (of an array) or the one value
Body(lead, shape, wellFormed, elems) ==
  [lead |-> lead, shape |-> shape, wellFormed |-> wellFormed, elems |-> elems]

\* len(body) > 0 && body[0] == '['
FirstByteIsBracket(body) == body.shape = "array" /\ ~body.lead

\* jsoniter.Unmarshal(body, &batchRequest) succeeds
BatchDecodes(body) ==
  /\ body.wellFormed
  /\ body.shape = "array"
  /\ \A i \in 1..Len(body.elems) : body.elems[i].kind = "object"

\* jsoniter.Unmarshal(body, &singleRequest) succeeds
SingleDecodes(body) ==
  /\ body.wellFormed
  /\ body.shape = "value"
  /\ body.elems[1].kind = "object"

\* variant: a response that carries an error written with status 500
WrittenErrorAs500(status, kind, text, items) ==
  [status |-> IF \E k \in 1..Len(items) : "error" \in DOMAIN items[k] THEN 500 ELSE status,
   kind |-> kind, text |-> text, items |-> items]

Written(status, kind, text, items) ==
  [status |-> status, kind |-> kind, text |-> text, items |-> items]

NothingWritten == Written(0, "none", "", <<>>)

\* http.Error(w, text, status)
HttpError(text, status) == Written(status, "text", text, <<>>)

serverTimeout == 30

maxRetries == 3

maxSubdomainsToProcess == 10

NilErr == "<nil>"

\* the timeout server.MCPHandler gives a tools.call: 5*time.Minute, in seconds
handlerTimeout == 300

\* context.Background(); seconds is the time from creation to the deadline
Background == [hasDeadline |-> FALSE, err |-> NilErr, seconds |-> 0]

\* context.WithTimeout(parent, d): a child is done as soon as its parent is,
\* and its deadline is not later than its parent's
WithTimeout(parent, d) ==
  [hasDeadline |-> TRUE, err |-> parent.err,
   seconds |-> IF parent.hasDeadline /\ parent.seconds < d THEN parent.seconds ELSE d]

\* context.WithTimeout(r.Context(), serverTimeout) of mcpHandler
LiveCtx == WithTimeout(Background, serverTimeout)

\* variant: a deadline derived whatever the caller's context carries
CallContextAlwaysDerived(c, t) == WithTimeout(c, t)

\* lines 72-76: a deadline is derived from config.Timeout when ctx has none
CallContext(c, t) == IF ~c.hasDeadline THEN WithTimeout(c, t) ELSE c

\* variant: half the timeout, without the floor
recursiveTimeoutNoFloor(t) == t \div 2

\* lines 178-181: config.Timeout / 2, at least 30
recursiveTimeout(t) == IF t \div 2 < 30 THEN 30 ELSE t \div 2

\* variant: cancel() deferred to the return of RunEnumeration
CancelDeferred(c) == c

\* cancel(): an error the context already has stays
Cancelled(c) == [c EXCEPT !.err = IF c.err = NilErr THEN "context canceled" ELSE c.err]

NoRet == [subdomains |-> <<>>, err |-> <<>>]

(***************************************************************************)
(* Inputs.                                                                 *)
(***************************************************************************)
Ids == {AbsentID, NullID, ID1, ID2}

InitParamsSet ==
  {NoParams, ScalarParams} \cup
  {InitParams(pv) : pv \in {"0.3", "0.2", "<absent>", "<number>"}}

ArgsSet ==
  {NoArgs, ScalarArgs,
   ObjArgs(JAbsent, JAbsent, JAbsent, JAbsent),
   ObjArgs(JNum(5), JAbsent, JAbsent, JAbsent),
   ObjArgs(JStr(<<>>), JAbsent, JAbsent, JAbsent),
   ObjArgs(JStr(DomEx), JAbsent, JAbsent, JAbsent),
   ObjArgs(JStr(DomEx), JAbsent, JNum(2), JBool(TRUE))}

\* a valid domain with one optional argument present: of a wrong type, out of
\* range, fractional (0.5, 1.5), or valid
OptionalArgsSet ==
  LET base == ObjArgs(JStr(DomEx), JAbsent, JAbsent, JAbsent) IN
  {[base EXCEPT ![f] = v] :
     f \in {"timeout", "maxDepth"},
     v \in {JStr(<<120>>), JNum(0), JNum(-1), JHalf(0), JHalf(1), JNum(5)}} \cup
  {[base EXCEPT ![f] = v] :
     f \in {"sourcesFilter", "excludeSourcesFilter"},
     v \in {JNum(5), JStr(<<>>), JStr(<<120>>)}} \cup
  {[base EXCEPT !.recursive = v] : v \in {JStr(<<120>>), JNum(1), JBool(FALSE)}}

CallParamsSet ==
  {NoParams, ScalarParams} \cup
  {CallParams(nm, a) :
     nm \in {"<absent>", "<number>", "nonExistentTool", "enumerateSubdomains"},
     a \in ArgsSet}

\* recursion asked for with a depth above 2
DeepArgs == ObjArgs(JStr(DomEx), JAbsent, JNum(3), JBool(TRUE))

\* recursion asked for with a depth that does not allow it
ShallowArgs ==
  {ObjArgs(JStr(DomEx), JAbsent, m, JBool(TRUE)) : m \in {JAbsent, JHalf(0), JNum(1)}}

\* recursion with timeouts on both sides of the floor of the probe's timeout
TimedArgs ==
  {ObjArgs(JStr(DomEx), t, JNum(2), JBool(TRUE)) : t \in {JHalf(0), JNum(59), JNum(121)}}

\* further calls, offered without leading whitespace
MoreElems ==
  {Elem("object", ID1, "tools.call", CallParams("enumerateSubdomains", a)) :
     a \in ShallowArgs \cup TimedArgs}

\* the requests a direct caller of HandleToolsCall passes
DirectElems ==
  {Elem("object", ID1, "tools.call", CallParams("enumerateSubdomains", a)) :
     a \in {ObjArgs(JAbsent, JAbsent, JAbsent, JAbsent),
            ObjArgs(JStr(DomEx), JAbsent, JAbsent, JAbsent),
            ObjArgs(JStr(DomEx), JHalf(0), JAbsent, JAbsent),
            ObjArgs(JStr(DomEx), JNum(5), JAbsent, JAbsent),
            ObjArgs(JStr(DomEx), JAbsent, JNum(2), JBool(TRUE))}}

\* the values offered as a single request
SingleElems ==
  {Elem("scalar", AbsentID, "<absent>", NoParams)} \cup
  {Elem("object", id, m, NoParams) : id \in Ids, m \in {"unknownMethod", "tools.list"}} \cup
  {Elem("object", id, "initialize", p) : id \in Ids, p \in InitParamsSet} \cup
  {Elem("object", id, "tools.call", p) : id \in Ids, p \in CallParamsSet} \cup
  {Elem("object", ID1, "tools.call", CallParams("enumerateSubdomains", a)) :
     a \in OptionalArgsSet \cup {DeepArgs}}

\* the values offered as elements of a batch
BatchElems ==
  {Elem("scalar", AbsentID, "<absent>", NoParams),
   Elem("object", AbsentID, "unknownMethod", NoParams),
   Elem("object", ID1, "unknownMethod", NoParams),
   Elem("object", AbsentID, "tools.list", NoParams),
   Elem("object", ID2, "tools.list", NoParams),
   Elem("object", AbsentID, "initialize", InitParams("0.2")),
   Elem("object", ID1, "initialize", InitParams("0.3")),
   Elem("object", AbsentID, "tools.call",
        CallParams("enumerateSubdomains",
                   ObjArgs(JStr(DomEx), JAbsent, JAbsent, JAbsent))),
   Elem("object", ID2, "tools.call",
        CallParams("enumerateSubdomains",
                   ObjArgs(JStr(DomEx), JAbsent, JAbsent, JAbsent)))}

RECURSIVE SeqsUpTo(_, _)
SeqsUpTo(S, n) ==
  IF n = 0 THEN {<<>>}
  ELSE LET shorter == SeqsUpTo(S, n - 1)
       IN shorter \cup {Append(q, e) : q \in {r \in shorter : Len(r) = n - 1}, e \in S}

Bodies ==
  {Body(FALSE, "empty", FALSE, <<>>)} \cup
  {Body(lead, sh, FALSE, <<>>) : lead \in BOOLEAN, sh \in {"array", "value"}} \cup
  {Body(lead, "value", TRUE, <<e>>) : lead \in BOOLEAN, e \in SingleElems} \cup
  {Body(FALSE, "value", TRUE, <<e>>) : e \in MoreElems} \cup
  {Body(lead, "array", TRUE, q) : lead \in BOOLEAN, q \in SeqsUpTo(BatchElems, MaxBatch)}

HttpRequests ==
  {[method |-> "POST", contentType |-> "application/json", readable |-> TRUE, body |-> b] :
     b \in Bodies} \cup
  {[method |-> m, contentType |-> ct, readable |-> rd,
    body |-> Body(FALSE, "value", TRUE, <<Elem("object", ID1, "tools.list", NoParams)>>)] :
     m \in {"POST", "GET"}, ct \in {"application/json", "text/plain"}, rd \in BOOLEAN}

\* the requests offered to the /health handlers
HealthRequests ==
  {[method |-> m, contentType |-> "text/plain", readable |-> TRUE,
    body |-> Body(FALSE, "empty", FALSE, <<>>)] : m \in {"GET", "POST"}}

\* what the enumeration provider may answer to a query of the retry loop:
\* an error, or a result map (its keys)
PrimaryResults ==
  {{}, {DomEx}, {DomExUp, SubA}, {SubA, SubAUp}, {SubB, SubA}, ManySubs}

\* ... and to the recursive probe of sub
RecursiveResults(sub) ==
  {{}, {sub, Dot(<<99>>, sub)}, {DomEx, SubB}, {SubAUp}}

\* EnumerateSingleDomainWithCtx returns a map and an error; the orchestrator
\* reads both (lines 99, 108), so an error may come with a map
ProviderOutcomes(results) ==
  {[err |-> "provider error", keys |-> {}],
   [err |-> "rate limited", keys |-> {SubB}]} \cup
  {[err |-> NilErr, keys |-> K] : K \in results}

\* the answers offered to the recursive probe of sub; the probes of ManySubs
\* find nothing, but the last one probed, which finds a name or fails
RecursiveOutcomes(sub) ==
  IF sub \notin ManySubs
  THEN {[err |-> "provider error", keys |-> {}],
        [err |-> "rate limited", keys |-> {Dot(<<100>>, sub)}]} \cup
       {[err |-> NilErr, keys |-> K] : K \in RecursiveResults(sub)}
  ELSE IF sub = Dot(<<108>>, DomEx)
  THEN {[err |-> "provider error", keys |-> {}],
        [err |-> NilErr, keys |-> {Dot(<<99>>, sub)}]}
  ELSE {[err |-> NilErr, keys |-> {}]}

(***************************************************************************)
(* The state machine.  One HTTP request is in service at a time (the       *)
(* handlers share no state); a handler is cut at the points where it       *)
(* blocks: the provider calls and the pause between attempts.              *)
(***************************************************************************)
Init ==
  /\ pc = "idle"
  /\ handler = "mcpHandler"
  /\ http = [method |-> "GET", contentType |-> "text/plain", readable |-> TRUE,
             body |-> Body(FALSE, "empty", FALSE, <<>>)]
  /\ reqs = <<>>
  /\ idx = 1
  /\ responses = <<>>
  /\ answers = <<>>
  /\ out = NothingWritten
  /\ ctx = LiveCtx
  /\ domain = <<>>
  /\ config = DefaultConfig
  /\ handed = DefaultConfig
  /\ sawDone = FALSE
  /\ allEmpty = TRUE
  /\ callLog = <<>>
  /\ pauses = 0
  /\ probeLog = <<>>
  /\ recursiveCtx = Background
  /\ attempt = 1
  /\ resultMap = {}
  /\ enumErr = NilErr
  /\ subdomains = <<>>
  /\ allSubdomains = {}
  /\ recIdx = 1
  /\ ret = NoRet
  /\ primaryCalls = 0
  /\ recProbes = <<>>
  /\ returns = <<>>

EnumerationIdle ==
  /\ domain' = <<>>
  /\ config' = DefaultConfig
  /\ handed' = DefaultConfig
  /\ sawDone' = FALSE
  /\ allEmpty' = TRUE
  /\ callLog' = <<>>
  /\ pauses' = 0
  /\ probeLog' = <<>>
  /\ recursiveCtx' = Background
  /\ attempt' = 1
  /\ resultMap' = {}
  /\ enumErr' = NilErr
  /\ subdomains' = <<>>
  /\ allSubdomains' = {}
  /\ recIdx' = 1
  /\ ret' = NoRet
  /\ recProbes' = <<>>

\* the handler is entered
Enter(h, rq) ==
  /\ handler' = h
  /\ http' = rq
  /\ idx' = 1
  /\ ctx' = IF h = "direct" THEN Background ELSE LiveCtx
  /\ primaryCalls' = 0
  /\ returns' = <<>>
  /\ EnumerationIdle

\* the handler returns having written w, without dispatching
Refuse(w, resps) ==
  /\ out' = w
  /\ responses' = resps
  /\ answers' = [k \in 1..Len(resps) |-> 0]
  /\ reqs' = <<>>
  /\ pc' = "done"

Admit(rs) ==
  /\ out' = NothingWritten
  /\ responses' = <<>>
  /\ answers' = <<>>
  /\ reqs' = rs
  /\ pc' = "dispatch"

\* variant: the wrong error value for an undecodable body
ParseErrorResponseAsInvalidRequest == Response("2.0", NilID, Nil, ErrInvalidRequest)

\* Response{JSONRPC: "2.0", Error: ErrParse}
ParseErrorResponse == Response("2.0", NilID, Nil, ErrParse)

\* main.mcpHandler, up to the dispatch of the first request
mcpHandler ==
  /\ pc = "idle"
  /\ \E rq \in HttpRequests :
       /\ Enter("mcpHandler", rq)
       /\ IF rq.method # "POST"
          THEN Refuse(HttpError("Method not allowed", 405), <<>>)
          ELSE IF rq.contentType # "application/json"
          THEN Refuse(HttpError("Content type must be application/json", 415), <<>>)
          ELSE IF ~rq.readable
          THEN Refuse(HttpError("Failed to read request", 400), <<>>)
          ELSE IF FirstByteIsBracket(rq.body)
          THEN IF ~BatchDecodes(rq.body)
               THEN Refuse(Written(200, "array", "", <<EncodeJsoniter(ParseErrorResponse)>>),
                           <<ParseErrorResponse>>)
               ELSE Admit([i \in 1..Len(rq.body.elems) |-> Request(rq.body.elems[i])])
          ELSE IF ~SingleDecodes(rq.body)
               THEN Refuse(Written(200, "object", "", <<EncodeJsoniter(ParseErrorResponse)>>),
                           <<ParseErrorResponse>>)
               ELSE Admit(<<Request(rq.body.elems[1])>>)

\* server.MCPHandler, up to the switch on the method
MCPHandler ==
  /\ pc = "idle"
  /\ \E rq \in HttpRequests :
       /\ Enter("MCPHandler", rq)
       /\ IF rq.method # "POST"
          THEN Refuse(HttpError("Method not allowed", 405), <<>>)
          ELSE IF ~rq.readable \/ ~SingleDecodes(rq.body)
          THEN Refuse(Written(200, "object", "", <<EncodeStdJSON(ParseErrorResponse)>>),
                      <<ParseErrorResponse>>)
          ELSE Admit(<<Request(rq.body.elems[1])>>)

\* a caller of the exported mcp.HandleToolsCall with context.Background(), as
\* TestHandleToolsCall is
directCall ==
  /\ pc = "idle"
  /\ \E e \in DirectElems :
       /\ Enter("direct", [method |-> "GET", contentType |-> "text/plain", readable |-> TRUE,
                           body |-> Body(FALSE, "empty", FALSE, <<>>)])
       /\ Admit(<<Request(e)>>)

\* the handler main registers for /health
healthHandler ==
  /\ pc = "idle"
  /\ \E rq \in HealthRequests :
       /\ Enter("healthHandler", rq)
       /\ Refuse(Written(200, "text", "OK", <<>>), <<>>)

\* server.HealthHandler
HealthHandler ==
  /\ pc = "idle"
  /\ \E rq \in HealthRequests :
       /\ Enter("HealthHandler", rq)
       /\ Refuse(Written(200, "text", "{\"status\":\"ok\"}", <<>>), <<>>)

IsBatch == handler = "mcpHandler" /\ FirstByteIsBracket(http.body)

\* the batch loop keeps a response only if resp.ID != nil || resp.Error != nil;
\* the single path and MCPHandler keep every response
Kept(resp) == ~IsBatch \/ resp.ID # NilID \/ resp.Error # Nil

Collect(resp) ==
  /\ responses' = IF Kept(resp) THEN Append(responses, resp) ELSE responses
  /\ answers' = IF Kept(resp) THEN Append(answers, idx) ELSE answers
  /\ idx' = idx + 1

\* ProcessSingleRequest (mcpHandler) or the switch of MCPHandler, for a
\* request that returns without calling the provider
ProcessSingleRequest ==
  /\ pc = "dispatch"
  /\ idx <= Len(reqs)
  /\ ~RunsEnumeration(reqs[idx])
  /\ Collect(IF handler = "mcpHandler" THEN ProcessImmediate(reqs[idx])
             ELSE [ServerImmediate(reqs[idx]) EXCEPT !.JSONRPC = "2.0"])
  /\ UNCHANGED <<pc, handler, http, returns, reqs, out, ctx, domain, config, handed, sawDone, callLog, pauses, probeLog, recursiveCtx, allEmpty, attempt,
                 resultMap, enumErr, subdomains, allSubdomains, recIdx, ret,
                 primaryCalls, recProbes>>

\* config.Timeout <= 0 is replaced by 120
EffectiveTimeout(t) == IF t <= 0 THEN 120 ELSE t

\* HandleToolsCall for a validated call, and RunEnumeration up to its first
\* provider call; runner.NewRunner may fail
RunEnumeration ==
  /\ pc = "dispatch"
  /\ idx <= Len(reqs)
  /\ RunsEnumeration(reqs[idx])
  /\ domain' = ArgumentOf(reqs[idx].Params, "domain").str
  /\ handed' = ConfigOf(reqs[idx].Params)
  /\ sawDone' = FALSE
  /\ allEmpty' = TRUE
  /\ callLog' = <<>>
  /\ pauses' = 0
  /\ probeLog' = <<>>
  /\ recursiveCtx' = Background
  /\ config' = [ConfigOf(reqs[idx].Params) EXCEPT
                  !.Timeout = EffectiveTimeout(ConfigOf(reqs[idx].Params).Timeout)]
  /\ \/ /\ pc' = "attempt"
        /\ ret' = NoRet
        /\ ctx' = CallContext(IF handler = "MCPHandler"
                              THEN WithTimeout(Background, handlerTimeout) ELSE ctx,
                              EffectiveTimeout(ConfigOf(reqs[idx].Params).Timeout))
     \/ /\ pc' = "returned"
        /\ ret' = [subdomains |-> <<>>,
                   err |-> <<"failed to create subfinder runner: ", "runner error">>]
        /\ ctx' = IF handler = "MCPHandler"
                  THEN WithTimeout(Background, handlerTimeout) ELSE ctx
  /\ attempt' = 1
  /\ resultMap' = {}
  /\ enumErr' = NilErr
  /\ subdomains' = <<>>
  /\ allSubdomains' = {}
  /\ recIdx' = 1
  /\ recProbes' = <<>>
  /\ UNCHANGED <<handler, http, returns, reqs, idx, responses, answers, out, primaryCalls>>

\* lines 134-142: the keys of the result map other than the queried domain,
\* sorted
FirstPass(rm, dom) == SortStrings({sub \in rm : ~EqualFold(sub, dom)})

\* lines 234-245: the suggestions returned in place of an empty list
CommonSubdomains(dom) == [i \in 1..Len(commonPrefixes) |-> Dot(commonPrefixes[i], dom)]

\* variant: the suggestions also replace a single name found
OrSuggestionsForOne(subs, dom) == IF Len(subs) <= 1 THEN CommonSubdomains(dom) ELSE subs

\* variant: an empty list returned as it is
OrSuggestionsNone(subs, dom) == subs

OrSuggestions(subs, dom) == IF Len(subs) = 0 THEN CommonSubdomains(dom) ELSE subs

\* variant: the depth handed in is not looked at
RecursesAnyDepth(cfg, subs) == cfg.Recursive /\ Len(subs) > 0

Recurses(cfg, subs) == cfg.Recursive /\ Len(subs) > 0 /\ cfg.MaxDepth > 1

\* variant: the name of the probed entry is merged like the others
MergedUnfiltered(all, keys, sub, dom) == all \cup keys

\* variant: what a probe reports is dropped
MergedNothing(all, keys, sub, dom) == all

\* lines 214-223: what a successful probe of sub adds to the accumulated set
Merged(all, keys, sub, dom) == all \cup {r \in keys : ~EqualFold(r, sub)}

\* variant: the error returned as the provider gave it
WrapErrorBare(err) == <<"", err>>

\* fmt.Errorf("enumeration error after %d attempts: %w", maxRetries, enumErr)
WrapError(err) == <<"enumeration error after 3 attempts: ", err>>

\* variant: the loop leaves one entry late, at i > maxSubdomainsToProcess
WithinCapLate(i) == i <= maxSubdomainsToProcess + 1

\* variant: no cap on the entries re-queried
WithinCapNone(i) == TRUE

\* lines 192-194: the loop leaves at i >= maxSubdomainsToProcess (i from 0)
WithinCap(i) == i <= maxSubdomainsToProcess

ReturnError(e) ==
  /\ ret' = [subdomains |-> <<>>, err |-> e]
  /\ pc' = "returned"

ReturnList(subs) ==
  /\ ret' = [subdomains |-> OrSuggestions(subs, domain), err |-> <<>>]
  /\ pc' = "returned"

\* RunEnumeration from the end of the retry loop to the first recursive probe
\* or to the return; runner.NewRunner(&recursiveOpts) may fail
LoopExit(rm, err) ==
  IF err # NilErr
  THEN /\ ReturnError(WrapError(err))
       /\ UNCHANGED <<subdomains, allSubdomains, recIdx>>
  ELSE LET subs == FirstPass(rm, domain) IN
       IF Recurses(config, subs)
       THEN /\ allSubdomains' = Range(subs)
            /\ recIdx' = 1
            /\ \/ /\ subdomains' = subs
                  /\ pc' = "recurse"
                  /\ ret' = NoRet
               \/ /\ subdomains' = SortStrings(Range(subs))
                  /\ ReturnList(SortStrings(Range(subs)))
       ELSE /\ subdomains' = subs
            /\ ReturnList(subs)
            /\ UNCHANGED <<allSubdomains, recIdx>>

\* variant: no attempt counts as a success
SucceededNever(o) == FALSE

\* line 108: enumErr == nil && len(resultMap) > 0
Succeeded(o) == o.err = NilErr /\ o.keys # {}

\* one iteration of the retry loop: the provider call, the test of its result
\* and the select on ctx.Done(); the break inside the select leaves the
\* select, not the loop
EnumerateAttempt ==
  /\ pc = "attempt"
  /\ \E o \in ProviderOutcomes(PrimaryResults) :
       /\ resultMap' = o.keys
       /\ allEmpty' = (allEmpty /\ o.err = NilErr /\ o.keys = {} /\ ctx.err = NilErr)
       /\ primaryCalls' = primaryCalls + 1
       /\ callLog' = Append(callLog, o)
       /\ IF Succeeded(o)
          THEN /\ enumErr' = NilErr
               /\ attempt' = attempt
               /\ sawDone' = sawDone
               /\ LoopExit(o.keys, NilErr)
          ELSE IF ctx.err # NilErr
          THEN LET e == IF o.err = NilErr THEN ctx.err ELSE o.err IN
               /\ enumErr' = e
               /\ sawDone' = TRUE
               /\ attempt' = attempt + 1
               /\ IF attempt < maxRetries
                  THEN /\ pc' = "attempt"
                       /\ UNCHANGED <<subdomains, allSubdomains, recIdx, ret>>
                  ELSE LoopExit(o.keys, e)
          ELSE /\ enumErr' = o.err
               /\ sawDone' = sawDone
               /\ IF attempt < maxRetries
                  THEN /\ pc' = "sleep"
                       /\ attempt' = attempt
                       /\ UNCHANGED <<subdomains, allSubdomains, recIdx, ret>>
                  ELSE /\ attempt' = attempt + 1
                       /\ LoopExit(o.keys, o.err)
  /\ UNCHANGED <<handler, http, returns, reqs, idx, responses, answers, out, ctx, domain,
                 config, handed, pauses, probeLog, recursiveCtx, recProbes>>

\* time.Sleep(2 * time.Second) returns
RetryPause ==
  /\ pc = "sleep"
  /\ pc' = "attempt"
  /\ attempt' = attempt + 1
  /\ pauses' = pauses + 1
  /\ UNCHANGED <<handler, http, returns, reqs, idx, responses, answers, out, ctx, domain,
                 config, handed, sawDone, callLog, probeLog, recursiveCtx, allEmpty, resultMap, enumErr, subdomains, allSubdomains, recIdx,
                 ret, primaryCalls, recProbes>>

\* one iteration of the recursive loop, up to the provider call: the probe
\* of subdomains[i] gets a context derived from context.Background()
RecursiveProbe ==
  /\ pc = "recurse"
  /\ recIdx <= Len(subdomains)
  /\ WithinCap(recIdx)
  /\ recursiveCtx' = WithTimeout(Background, recursiveTimeout(config.Timeout))
  /\ recProbes' = Append(recProbes, subdomains[recIdx])
  /\ pc' = "probe"
  /\ UNCHANGED <<handler, http, returns, reqs, idx, responses, answers, out, ctx,
                 domain, config, handed, sawDone, allEmpty, callLog, pauses, probeLog, attempt,
                 resultMap, enumErr, subdomains, allSubdomains, recIdx, ret, primaryCalls>>

\* the probe returns: cancel(), then an error of the probe is logged and
\* skipped, a result merged
ProbeReturns ==
  /\ pc = "probe"
  /\ \E o \in RecursiveOutcomes(subdomains[recIdx]) :
       /\ allSubdomains' = IF o.err # NilErr THEN allSubdomains
                           ELSE Merged(allSubdomains, o.keys, subdomains[recIdx], domain)
       /\ probeLog' = Append(probeLog, [sub |-> subdomains[recIdx], err |-> o.err,
                                        keys |-> o.keys])
  /\ recursiveCtx' = Cancelled(recursiveCtx)
  /\ recIdx' = recIdx + 1
  /\ pc' = "recurse"
  /\ UNCHANGED <<handler, http, returns, reqs, idx, responses, answers, out, ctx,
                 domain, config, handed, sawDone, allEmpty, callLog, pauses, attempt, resultMap,
                 enumErr, subdomains, ret, primaryCalls, recProbes>>

\* the deadline of the probe's own context passes
ProbeDeadline ==
  /\ pc = "probe"
  /\ recursiveCtx.err = NilErr
  /\ recursiveCtx' = [recursiveCtx EXCEPT !.err = "context deadline exceeded"]
  /\ UNCHANGED <<pc, handler, http, returns, reqs, idx, responses, answers, out, ctx,
                 domain, config, handed, sawDone, allEmpty, callLog, pauses, probeLog, attempt,
                 resultMap, enumErr, subdomains, allSubdomains, recIdx, ret, primaryCalls,
                 recProbes>>

\* lines 227-231 and the return
RecursionDone ==
  /\ pc = "recurse"
  /\ recIdx > Len(subdomains) \/ ~WithinCap(recIdx)
  /\ subdomains' = SortStrings(allSubdomains)
  /\ ReturnList(SortStrings(allSubdomains))
  /\ UNCHANGED <<handler, http, returns, reqs, idx, responses, answers, out, ctx, domain,
                 config, handed, sawDone, callLog, pauses, probeLog, recursiveCtx, allEmpty, attempt, resultMap, enumErr, allSubdomains, recIdx,
                 primaryCalls, recProbes>>

\* HandleToolsCall after RunEnumeration returned; the locals of the call die
HandleToolsCall ==
  /\ pc = "returned"
  /\ Collect(ToolsCallResult(reqs[idx], domain, ret))
  /\ returns' = Append(returns, [elem |-> idx, domain |-> domain, ret |-> ret])
  /\ pc' = "dispatch"
  /\ EnumerationIdle
  /\ UNCHANGED <<handler, http, reqs, out, ctx, primaryCalls>>

Encode(resp) ==
  IF handler = "mcpHandler" THEN EncodeJsoniter(resp) ELSE EncodeStdJSON(resp)

\* writeResponse(w, response, http.StatusOK, ...) of mcpHandler; the
\* json.Marshal and w.Write of MCPHandler
writeResponse ==
  /\ pc = "dispatch"
  /\ handler # "direct"
  /\ idx > Len(reqs)
  /\ out' = Written(200, IF IsBatch THEN "array" ELSE "object", "",
                    [k \in 1..Len(responses) |-> Encode(responses[k])])
  /\ pc' = "done"
  /\ UNCHANGED <<handler, http, returns, reqs, idx, responses, answers, ctx, domain,
                 config, handed, sawDone, callLog, pauses, probeLog, recursiveCtx, allEmpty, attempt, resultMap, enumErr, subdomains, allSubdomains,
                 recIdx, ret, primaryCalls, recProbes>>

\* HandleToolsCall has returned to the caller that called it directly
callerReturns ==
  /\ pc = "dispatch"
  /\ handler = "direct"
  /\ idx > Len(reqs)
  /\ pc' = "done"
  /\ UNCHANGED <<handler, http, returns, reqs, idx, responses, answers, out, ctx, domain,
                 config, handed, sawDone, callLog, pauses, probeLog, recursiveCtx, allEmpty,
                 attempt, resultMap, enumErr, subdomains, allSubdomains, recIdx, ret,
                 primaryCalls, recProbes>>

\* the context of the call ends: the client went away or the server shuts down
\* (mcpHandler derives it from r.Context()), or its deadline passed
ContextDone ==
  /\ ctx.err = NilErr
  /\ \/ handler = "mcpHandler" /\ pc \in {"dispatch", "attempt", "sleep", "recurse", "probe", "returned"}
     \/ handler = "MCPHandler" /\ pc \in {"attempt", "sleep", "recurse", "probe", "returned"}
     \/ handler = "direct" /\ ctx.hasDeadline /\ pc \in {"attempt", "sleep", "recurse", "probe"}
  /\ \E e \in IF handler = "mcpHandler"
              THEN {"context canceled", "context deadline exceeded"}
              ELSE {"context deadline exceeded"} :
       ctx' = [ctx EXCEPT !.err = e]
  /\ UNCHANGED <<pc, handler, http, returns, reqs, idx, responses, answers, out, domain,
                 config, handed, sawDone, callLog, pauses, probeLog, recursiveCtx, allEmpty, attempt, resultMap, enumErr, subdomains, allSubdomains,
                 recIdx, ret, primaryCalls, recProbes>>

\* the handler has returned: nothing of the request survives
handlerReturns ==
  /\ pc = "done"
  /\ pc' = "idle"
  /\ handler' = "mcpHandler"
  /\ http' = [method |-> "GET", contentType |-> "text/plain", readable |-> TRUE,
              body |-> Body(FALSE, "empty", FALSE, <<>>)]
  /\ reqs' = <<>>
  /\ idx' = 1
  /\ responses' = <<>>
  /\ answers' = <<>>
  /\ out' = NothingWritten
  /\ ctx' = LiveCtx
  /\ primaryCalls' = 0
  /\ returns' = <<>>
  /\ EnumerationIdle

Next ==
  \/ mcpHandler
  \/ MCPHandler
  \/ directCall
  \/ healthHandler
  \/ HealthHandler
  \/ ProcessSingleRequest
  \/ RunEnumeration
  \/ EnumerateAttempt
  \/ RetryPause
  \/ RecursiveProbe
  \/ ProbeReturns
  \/ ProbeDeadline
  \/ RecursionDone
  \/ HandleToolsCall
  \/ writeResponse
  \/ callerReturns
  \/ ContextDone
  \/ handlerReturns

Spec == Init /\ [][Next]_vars

(***************************************************************************)
(* Properties.  A handler's answer is judged in the state where it has     *)
(* written (pc = "done"): out.items[k] is the k-th response object of the  *)
(* body and answers[k] the request element it answers.                     *)
(***************************************************************************)
Served == pc = "done" /\ handler \in {"mcpHandler", "MCPHandler"}

\* the request element that response object k answers
ElemAnswered(k) == http.body.elems[answers[k]]

\* the response objects written for request element i
AnswersTo(i) == {k \in 1..Len(answers) : answers[k] = i}

\* C1: a request without an id member is never answered by a response
\* object, whatever its method and whether it came alone or in a batch.
C1_NotificationNeverAnswered ==
  Served => \A k \in 1..Len(answers) :
              answers[k] # 0 => ElemAnswered(k).id # AbsentID

\* response object k is an error of the given code, without a result
IsErrorOf(k, code) ==
  /\ "error" \in DOMAIN out.items[k]
  /\ "result" \notin DOMAIN out.items[k]
  /\ out.items[k].error.code = code

\* request element i carries an id that decodes to a value
CarriesID(i) == DecodeID(http.body.elems[i].id) # NilID

\* C2: a request that carries an id and names a method other than
\* initialize, tools.list and tools.call is answered with error code
\* -32601, no result, and the id of the request.
C2_UnknownMethodNotFound ==
  Served => \A i \in 1..Len(reqs) :
              CarriesID(i) /\ reqs[i].Method \notin KnownMethods
                => /\ AnswersTo(i) # {}
                   /\ \A k \in AnswersTo(i) :
                        /\ IsErrorOf(k, MethodNotFoundCode)
                        /\ "id" \in DOMAIN out.items[k]
                        /\ out.items[k].id = http.body.elems[i].id

\* the handler got as far as decoding the body
BodyDecoded ==
  /\ http.method = "POST"
  /\ http.readable
  /\ handler = "mcpHandler" => http.contentType = "application/json"

\* C3: a body that is not well-formed JSON, batch-like or single, is
\* answered with error code -32700, and the provider is not invoked.
C3_MalformedBodyParseError ==
  Served /\ BodyDecoded /\ ~http.body.wellFormed
    => /\ out.status = 200
       /\ Len(out.items) = 1
       /\ IsErrorOf(1, ParseErrorCode)
       /\ primaryCalls = 0
       /\ recProbes = <<>>
       /\ returns = <<>>

C3_Witness ==
  /\ Served
  /\ handler = "mcpHandler"
  /\ BodyDecoded
  /\ ~http.body.wellFormed
  /\ FirstByteIsBracket(http.body)
  /\ out.kind = "array"
  /\ IsErrorOf(1, ParseErrorCode)

\* request element i is a tools.call whose params are an object naming no
\* tool, or a tool other than enumerateSubdomains
CallsUnknownTool(i) ==
  /\ reqs[i].Method = "tools.call"
  /\ reqs[i].Params.kind = "object"
  /\ reqs[i].Params.name \in {"<absent>", "nonExistentTool"}

CallsEnumerate(i) ==
  /\ reqs[i].Method = "tools.call"
  /\ reqs[i].Params.kind = "object"
  /\ reqs[i].Params.name = "enumerateSubdomains"
  /\ reqs[i].Params.arguments.kind \in {"absent", "object"}

\* the arguments of element i have no domain, a domain that is no string, or
\* the empty string
LacksDomain(i) ==
  LET d == ArgumentOf(reqs[i].Params, "domain") IN
  d.kind = "absent" \/ d.kind # "string" \/ d.str = <<>>

\* C5: a tools.call for enumerateSubdomains without a domain, with a domain
\* that is not a string, or with an empty domain is answered with error code
\* -32602 and no result; the enumeration does not run.
C5_MissingDomainInvalidParams ==
  Served => \A i \in 1..Len(reqs) :
              CallsEnumerate(i) /\ LacksDomain(i)
                => /\ AnswersTo(i) # {}
                   /\ \A k \in AnswersTo(i) : IsErrorOf(k, InvalidParamsCode)
                   /\ \A r \in 1..Len(returns) : returns[r].elem # i

C5_Witness ==
  /\ Served
  /\ \E i \in 1..Len(reqs) :
       /\ CallsEnumerate(i)
       /\ ArgumentOf(reqs[i].Params, "domain") = JStr(<<>>)
       /\ \E k \in AnswersTo(i) : IsErrorOf(k, InvalidParamsCode)

\* C6: initialize with protocol version "0.3" is answered with the result
\* {MCP Subfinder Server, 1.0.0, 0.3}; with any other version (another
\* string, no protocolVersion member, no params, a value that is no string)
\* it is answered with error code -32602 and a message naming the requested
\* and the supported version.
C6_InitializeVersion ==
  Served => \A i \in 1..Len(reqs) :
              reqs[i].Method = "initialize" /\ reqs[i].Params.kind \in {"absent", "object"}
                => IF reqs[i].Params.protocolVersion = "0.3"
                   THEN \A k \in AnswersTo(i) :
                          /\ "error" \notin DOMAIN out.items[k]
                          /\ "result" \in DOMAIN out.items[k]
                          /\ out.items[k].result = InitializeResult
                   ELSE /\ AnswersTo(i) # {}
                        /\ \A k \in AnswersTo(i) :
                             /\ IsErrorOf(k, InvalidParamsCode)
                             /\ out.items[k].error.message =
                                  UnsupportedVersionMessage(ProtocolVersionOf(reqs[i].Params))

\* C7: every response object written has exactly one of result and error,
\* and its id is the id of the request it answers: absent exactly when that
\* request had no id or could not be parsed.
C7_ResultXorErrorAndID ==
  Served => \A k \in 1..Len(out.items) :
              /\ ("result" \in DOMAIN out.items[k]) # ("error" \in DOMAIN out.items[k])
              /\ IF answers[k] = 0 \/ ~CarriesID(answers[k])
                 THEN "id" \notin DOMAIN out.items[k]
                 ELSE /\ "id" \in DOMAIN out.items[k]
                      /\ out.items[k].id = ElemAnswered(k).id

\* C8: when the enumeration of a validated tools.call fails (runner not
\* created, provider error on the last attempt, context cancelled or
\* expired), the response has a result and no error; the result is flagged
\* isError and has exactly one text item describing the failure.  No
\* enumeration outcome is answered with an RPC error.
C8_EnumerationFailureIsToolResult ==
  Served => \A r \in 1..Len(returns) :
              /\ CarriesID(returns[r].elem) => AnswersTo(returns[r].elem) # {}
              /\ \A k \in AnswersTo(returns[r].elem) :
                   /\ "error" \notin DOMAIN out.items[k]
                   /\ "result" \in DOMAIN out.items[k]
                   /\ returns[r].ret.err # <<>> =>
                        /\ out.items[k].result.IsError
                        /\ Len(out.items[k].result.Content) = 1
                        /\ out.items[k].result.Content[1] =
                             ContentItem(<<"Subdomain enumeration failed: ">>
                                         \o returns[r].ret.err)

C8_Witness ==
  /\ Served
  /\ primaryCalls = maxRetries
  /\ \E r \in 1..Len(returns) :
       /\ returns[r].ret.err = <<"enumeration error after 3 attempts: ", "provider error">>
       /\ \E k \in AnswersTo(returns[r].elem) : out.items[k].result.IsError

\* "Found N subdomains for D"
FoundText(n, dom) ==
  <<70, 111, 117, 110, 100, 32>> \o Itoa(n)
  \o <<32, 115, 117, 98, 100, 111, 109, 97, 105, 110, 115, 32, 102, 111, 114, 32>> \o dom

\* C9: on success the result is not flagged isError and has exactly two
\* content items: the text "Found N subdomains for D", then a text/plain
\* resource whose blob is the base64 of the newline-joined list; N is the
\* length of the list and D the requested domain.
C9_SuccessSummaryAndList ==
  Served => \A r \in 1..Len(returns) :
              returns[r].ret.err = <<>> =>
                \A k \in AnswersTo(returns[r].elem) :
                  /\ "result" \in DOMAIN out.items[k]
                  /\ ~out.items[k].result.IsError
                  /\ out.items[k].result.Content =
                       << ContentItem(FoundText(Len(returns[r].ret.subdomains),
                                                returns[r].domain)),
                          ResourceItem("text/plain",
                                       Base64(Join(returns[r].ret.subdomains))) >>

\* C9, amended: ... the text "Successfully enumerated N subdomains for D",
\* then a text/plain resource whose blob is the base64 of
\* "Found N subdomains for D:", an empty line, and the newline-joined list.
C9_SuccessSummaryAndReport ==
  Served => \A r \in 1..Len(returns) :
              returns[r].ret.err = <<>> =>
                \A k \in AnswersTo(returns[r].elem) :
                  /\ "result" \in DOMAIN out.items[k]
                  /\ "error" \notin DOMAIN out.items[k]
                  /\ ~out.items[k].result.IsError
                  /\ Len(out.items[k].result.Content) = 2
                  /\ out.items[k].result.Content[1] =
                       ContentItem(<<83, 117, 99, 99, 101, 115, 115, 102, 117, 108, 108, 121, 32, 101, 110, 117, 109, 101, 114, 97, 116, 101, 100, 32>>
                                   \o Itoa(Len(returns[r].ret.subdomains))
                                   \o <<32, 115, 117, 98, 100, 111, 109, 97, 105, 110, 115, 32, 102, 111, 114, 32>>
                                   \o returns[r].domain)
                  /\ out.items[k].result.Content[2] =
                       ResourceItem("text/plain",
                         Base64(FoundText(Len(returns[r].ret.subdomains), returns[r].domain)
                                \o <<58, 10, 10>>
                                \o Join(returns[r].ret.subdomains)))

C9_Witness ==
  /\ Served
  /\ \E r \in 1..Len(returns) :
       /\ returns[r].ret.err = <<>>
       /\ returns[r].ret.subdomains = <<SubA, SubB>>
       /\ \E k \in AnswersTo(returns[r].elem) :
            Len(out.items[k].result.Content) = 2

\* C10: the list RunEnumeration returns never holds an entry equal, ignoring
\* case, to the queried domain, whatever the provider answers and whatever
\* the configuration; entries reported by recursive probes included.
C10_DomainNeverInList ==
  pc = "returned" /\ ret.err = <<>>
    => \A j \in 1..Len(ret.subdomains) : ~EqualFold(ret.subdomains[j], domain)

\* RunEnumeration has returned a list and no error
ReturnedList == pc = "returned" /\ ret.err = <<>>

\* ascending in the byte-wise order of sort.Strings
IsSorted(s) == \A i \in 1..Len(s) : \A j \in 1..Len(s) : i < j => ~StringLess(s[j], s[i])

\* C11: every list RunEnumeration returns without error is in ascending
\* lexicographic order: the first-pass result, the result after recursion,
\* and the list of common-subdomain suggestions.
C11_ReturnedListSorted == ReturnedList => IsSorted(ret.subdomains)

\* C12: no list RunEnumeration returns holds two entries that are equal
\* ignoring case, whatever case the provider reports its keys in.
C12_NoCaseDuplicates ==
  ReturnedList => \A i \in 1..Len(ret.subdomains) : \A j \in 1..Len(ret.subdomains) :
                    i # j => ~EqualFold(ret.subdomains[i], ret.subdomains[j])

\* C13: when each of the three attempts gives no result and no error and the
\* context is live, RunEnumeration returns, without error, exactly the ten
\* names www, mail, api, dev, blog, shop, app, support, help, portal, each
\* followed by "." and the queried domain.
C13_EmptyResultsGiveSuggestions ==
  pc = "returned" /\ allEmpty /\ attempt > maxRetries
    => /\ ret.err = <<>>
       /\ Len(ret.subdomains) = 10
       /\ \A i \in 1..10 : ret.subdomains[i] = commonPrefixes[i] \o <<46>> \o domain

C13_Witness ==
  /\ pc = "returned"
  /\ allEmpty
  /\ attempt > maxRetries
  /\ primaryCalls = maxRetries
  /\ domain = DomEx
  /\ Len(ret.subdomains) = 10
  /\ ret.subdomains[1] = <<119, 119, 119, 46>> \o DomEx
  /\ ret.subdomains[10] = <<112, 111, 114, 116, 97, 108, 46>> \o DomEx

\* C14: once a failed or empty attempt completes on a cancelled context
\* (cancelled before the first attempt included), RunEnumeration calls the
\* provider no more and returns an error, the cancellation.
C14_CancelledStopsRetries ==
  sawDone => /\ pc # "attempt"
             /\ pc = "returned" => ret.err # <<>>

\* the indices of the body's elements that carry an id, in their order
IndicesWithID ==
  SelectSeq([i \in 1..Len(http.body.elems) |-> i], LAMBDA i : CarriesID(i))

\* C15: the response array of a well-formed batch (of request objects) has
\* exactly one entry for each element with an id, in the order of the elements, and none for an
\* element without id, whatever that notification's method and outcome.
C15_BatchOneEntryPerID ==
  Served /\ IsBatch /\ BatchDecodes(http.body) => answers = IndicesWithID

\* what element i of the body is answered when it is sent alone and does
\* not reach the provider
AnsweredAlone(i) == EncodeJsoniter(ProcessImmediate(Request(http.body.elems[i])))

\* C16: in a well-formed batch a failing element (no object, unknown method,
\* bad params, failed enumeration) yields only its own error: every other
\* element with an id is answered as it would be when sent alone.
C16_BatchElementsIndependent ==
  Served /\ IsBatch /\ http.body.wellFormed
    => \A i \in 1..Len(http.body.elems) :
         http.body.elems[i].kind = "object" /\ CarriesID(i)
           => /\ Cardinality(AnswersTo(i)) = 1
              /\ ~RunsEnumeration(Request(http.body.elems[i]))
                   => \A k \in AnswersTo(i) : out.items[k] = AnsweredAlone(i)

\* C17: a payload is dispatched as a batch, and answered with an array,
\* exactly when its first byte other than whitespace is '['.
C17_BatchIffLeadingBracket ==
  Served /\ handler = "mcpHandler" /\ BodyDecoded
    => (out.kind = "array") = (http.body.shape = "array")

\* a JSON-RPC envelope: version 2.0 and exactly one of result and error
WellFormedEnvelope(o) ==
  /\ o.jsonrpc = "2.0"
  /\ ("result" \in DOMAIN o) # ("error" \in DOMAIN o)

InCall == pc \in {"attempt", "sleep", "recurse", "probe", "returned"}

\* the argument of the call in service
Argument(key) == ArgumentOf(reqs[idx].Params, key)

\* a JSON number that is a positive integer
PositiveInteger(v) == v.kind = "number" /\ v.num > 0 /\ ~v.half

\* C19: an optional argument that is present with a wrong type or an invalid
\* value (timeout, maxDepth: a string, zero, negative, or a positive number
\* that is no integer) does not fail the call and leaves its field at the
\* default in the configuration handed to RunEnumeration.
C19_InvalidOptionalKeepsDefault ==
  InCall =>
    /\ Argument("timeout").kind # "absent" /\ ~PositiveInteger(Argument("timeout"))
         => handed.Timeout = 60
    /\ Argument("maxDepth").kind # "absent" /\ ~PositiveInteger(Argument("maxDepth"))
         => handed.MaxDepth = 1
    /\ Argument("sourcesFilter").kind \notin {"absent", "string"}
         => handed.SourcesFilter = <<>>
    /\ Argument("excludeSourcesFilter").kind \notin {"absent", "string"}
         => handed.ExcludeSourcesFilter = <<>>
    /\ Argument("recursive").kind \notin {"absent", "bool"}
         => handed.Recursive = FALSE

FirstPassList == FirstPass(resultMap, domain)

\* C21: with recursive = true and maxDepth = d > 2, a subdomain first
\* discovered by a recursive probe at a level below d is itself re-queried.
C21_RecursionReachesMaxDepth ==
  /\ pc = "returned" /\ ret.err = <<>>
  /\ config.Recursive /\ config.MaxDepth > 2
  /\ recProbes # <<>>
  /\ Len(ret.subdomains) <= maxSubdomainsToProcess
  => \A s \in Range(ret.subdomains) \ Range(FirstPassList) : s \in Range(recProbes)

\* the tools that tools.list returns
Listing == HandleToolsList([ID |-> NilID]).Result.tools

ListedNames == {Listing[t].Name : t \in 1..Len(Listing)}

\* C22: tools.call accepts exactly the tool names tools.list returns (one,
\* enumerateSubdomains); the arguments whose absence tools.call rejects are
\* exactly those the listed schema marks required (domain only); and every
\* tools.list is answered with the same listing, whatever was served before.
C22_ListAndCallAgree ==
  Served => \A i \in 1..Len(reqs) :
    CarriesID(i) =>
      /\ reqs[i].Method = "tools.list"
           => /\ AnswersTo(i) # {}
              /\ \A k \in AnswersTo(i) :
                   /\ "error" \notin DOMAIN out.items[k]
                   /\ out.items[k].result.tools = Listing
                   /\ ListedNames = {"enumerateSubdomains"}
                   /\ Len(Listing) = 1
                   /\ Listing[1].required = {"domain"}
      /\ reqs[i].Method = "tools.call" /\ ToolCallParamsOK(reqs[i].Params)
           => /\ AnswersTo(i) # {}
              /\ \A k \in AnswersTo(i) :
                   /\ IsErrorOf(k, MethodNotFoundCode)
                        <=> ToolNameOf(reqs[i].Params) \notin ListedNames
                   /\ ToolNameOf(reqs[i].Params) \in ListedNames
                        => \A t \in 1..Len(Listing) :
                             /\ (\E a \in Listing[t].required :
                                   ArgumentOf(reqs[i].Params, a).kind = "absent")
                                  => IsErrorOf(k, InvalidParamsCode)
                             /\ (\A a \in Listing[t].required :
                                   /\ ArgumentOf(reqs[i].Params, a).kind = "string"
                                   /\ ArgumentOf(reqs[i].Params, a).str # <<>>)
                                  => "error" \notin DOMAIN out.items[k]

C22_Witness ==
  /\ Served
  /\ IsBatch
  /\ Len(reqs) = 2
  /\ reqs[1].Method = "tools.list" /\ CarriesID(1)
  /\ reqs[2].Method = "tools.call" /\ CarriesID(2)
  /\ ToolNameOf(reqs[2].Params) = "enumerateSubdomains"
  /\ \A a \in subdomainTool.properties \ subdomainTool.required :
       ArgumentOf(reqs[2].Params, a).kind = "absent"
  /\ \E k \in AnswersTo(1) : out.items[k].result.tools = Listing
  /\ \E k \in AnswersTo(2) : "error" \notin DOMAIN out.items[k]

\* a /health handler has answered
HealthServed == pc = "done" /\ handler \in {"healthHandler", "HealthHandler"}

\* C23: a GET to /health is answered with status 200 and exactly the body
\* {"status":"ok"}, by every handler registered for /health.
C23_HealthFixedBody ==
  HealthServed /\ http.method = "GET"
    => out.status = 200 /\ out.text = "{\"status\":\"ok\"}"

\* runner.NewRunner failed: RunEnumeration returned at line 69
RunnerFailed == ret.err = <<"failed to create subfinder runner: ", "runner error">>

\* the provider answered without error and with at least one result
Qualifies(o) == o.err = NilErr /\ o.keys # {}

\* no attempt before the last one recorded was a success
NoCallAfterSuccess == \A j \in 1..(Len(callLog) - 1) : ~Qualifies(callLog[j])

\* a success of the last attempt is what the returned list was made of
LastSuccessProcessed ==
  Len(callLog) > 0 /\ Qualifies(callLog[Len(callLog)])
    => /\ ret.err = <<>>
       /\ resultMap = callLog[Len(callLog)].keys
       /\ Range(FirstPass(callLog[Len(callLog)].keys, domain)) \subseteq Range(ret.subdomains)

\* C24: in one RunEnumeration call the provider is invoked at least once and
\* at most 3 times, and never again after an attempt without error and with
\* at least one result, whose result map is the one post-processed.
C24_ProviderCalledOnceToThrice ==
  /\ Len(callLog) <= maxRetries
  /\ NoCallAfterSuccess
  /\ pc = "returned" => Len(callLog) >= 1 /\ LastSuccessProcessed

\* C24, amended: when runner.NewRunner fails the provider is not invoked and
\* the error is returned; otherwise it is invoked at least once and at most
\* 3 times, never again after an attempt without error and with at least one
\* result, and that attempt's result map is the one post-processed.
C24_ProviderCalledUnlessRunnerFails ==
  /\ Len(callLog) <= maxRetries
  /\ NoCallAfterSuccess
  /\ pc = "returned"
       => IF RunnerFailed THEN Len(callLog) = 0
          ELSE Len(callLog) >= 1 /\ LastSuccessProcessed

C24_Witness ==
  /\ pc = "returned"
  /\ Len(callLog) = 2
  /\ ~Qualifies(callLog[1])
  /\ Qualifies(callLog[2])
  /\ ret.err = <<>>
  /\ ret.subdomains = FirstPass(callLog[2].keys, domain)
  /\ Len(ret.subdomains) > 0

\* C25: the pause between two attempts observes cancellation: when the
\* context is cancelled during the pause, the wait is aborted and no other
\* attempt is started.
C25_PauseObservesCancellation ==
  [][pc = "sleep" /\ ctx.err # NilErr => pc' # "attempt"]_vars

\* C26: when all 3 attempts are used and the last one returned an error,
\* RunEnumeration returns that error wrapped with the attempt count and no
\* list; no recursive probe is issued, no suggestion list is made, and the
\* errors of earlier attempts are not what is reported.
C26_LastErrorWrapped ==
  pc = "returned" /\ Len(callLog) = maxRetries /\ callLog[maxRetries].err # NilErr
    => /\ ret.err = <<"enumeration error after 3 attempts: ", callLog[maxRetries].err>>
       /\ ret.subdomains = <<>>
       /\ recProbes = <<>>

C26_Witness ==
  /\ pc = "returned"
  /\ Len(callLog) = maxRetries
  /\ callLog[1].err = "provider error"
  /\ callLog[maxRetries].err = "rate limited"
  /\ ret.err = <<"enumeration error after 3 attempts: ", "rate limited">>
  /\ ret.subdomains = <<>>

\* C27: the result set is built across the retry attempts: a subdomain the
\* provider reported in any attempt of a call that ends without error is in
\* the returned list, unless it is the queried domain.
C27_ResultsKeptAcrossAttempts ==
  pc = "returned" /\ ret.err = <<>>
    => \A j \in 1..Len(callLog) : \A sub \in callLog[j].keys :
         ~EqualFold(sub, domain) => sub \in Range(ret.subdomains)

\* C28: cancelling the context passed to RunEnumeration cancels the
\* outstanding recursive probe, and no later entry is probed with a live
\* context: while a probe is in flight under a cancelled caller's context,
\* the probe's context is done.  A probe's own deadline expiring does not
\* cancel the caller's context.
C28_ParentCancelsProbe ==
  /\ [](pc = "probe" /\ ctx.err # NilErr => recursiveCtx.err # NilErr)
  /\ [][pc = "probe" /\ recursiveCtx.err = NilErr /\ recursiveCtx'.err # NilErr
         => ctx' = ctx]_vars

\* the first-pass entries that the recursion is to re-query
Frontier ==
  SubSeq(FirstPassList, 1,
         IF Len(FirstPassList) > maxSubdomainsToProcess THEN maxSubdomainsToProcess
         ELSE Len(FirstPassList))

\* the recursion of the call that has returned probed every frontier entry,
\* the call returned no error and the first-pass entries are in its list
ProbedAllKeptFirstPass ==
  /\ recProbes = Frontier
  /\ Len(probeLog) = Len(Frontier)
  /\ ret.err = <<>>
  /\ Range(FirstPassList) \subseteq Range(ret.subdomains)

\* C29: a failure of a recursive probe is not fatal: whichever probes fail,
\* every frontier entry within the cap is probed, the subdomains of the first
\* pass and of the successful probes are all in the final result, and
\* RunEnumeration returns no error.
C29_ProbeFailureNonFatal ==
  pc = "returned" /\ recProbes # <<>>
    => /\ ProbedAllKeptFirstPass
       /\ \A j \in 1..Len(probeLog) :
            probeLog[j].err = NilErr => probeLog[j].keys \subseteq Range(ret.subdomains)

\* C29, amended: as C29, but a name that a successful probe reports and that
\* equals, ignoring case, the entry being probed is skipped; the probed entry
\* itself is in the final result.
C29_ProbeFailureNonFatalUpToProbed ==
  pc = "returned" /\ recProbes # <<>>
    => /\ ProbedAllKeptFirstPass
       /\ \A j \in 1..Len(probeLog) :
            /\ probeLog[j].sub \in Range(ret.subdomains)
            /\ probeLog[j].err = NilErr
                 => \A sub \in probeLog[j].keys :
                      sub \in Range(ret.subdomains) \/ EqualFold(sub, probeLog[j].sub)

C29_Witness ==
  /\ pc = "returned"
  /\ Len(probeLog) = 2
  /\ probeLog[1].err # NilErr
  /\ probeLog[2].err = NilErr
  /\ Dot(<<99>>, probeLog[2].sub) \in probeLog[2].keys
  /\ Dot(<<99>>, probeLog[2].sub) \in Range(ret.subdomains)
  /\ ret.err = <<>>

\* C30: when the first pass yields more than 10 subdomains and recursion
\* runs, exactly the first 10 entries of the sorted first-pass list are
\* re-queried, and every first-pass entry beyond the tenth is in the final
\* result.
C30_FrontierCappedAtTen ==
  /\ Len(recProbes) <= 10
  /\ pc = "returned" /\ recProbes # <<>> /\ Len(FirstPassList) > 10
       => /\ recProbes = SubSeq(FirstPassList, 1, 10)
          /\ Len(probeLog) = 10
          /\ \A i \in 11..Len(FirstPassList) :
               /\ FirstPassList[i] \notin Range(recProbes)
               /\ FirstPassList[i] \in Range(ret.subdomains)

C30_Witness ==
  /\ pc = "returned"
  /\ Len(FirstPassList) = 11
  /\ Len(recProbes) = 10
  /\ recProbes[10] = Dot(<<108>>, DomEx)
  /\ Dot(<<109>>, DomEx) \in Range(ret.subdomains)
  /\ Dot(<<99>>, recProbes[10]) \in Range(ret.subdomains)
  /\ Len(ret.subdomains) = 12

\* the configuration handed in and the first pass allow the recursion
RecursionAllowed == handed.Recursive /\ Len(FirstPassList) > 0 /\ handed.MaxDepth > 1

\* C31: a recursive provider call is issued only when recursive is true, the
\* first pass found a subdomain other than the queried domain and maxDepth is
\* above 1; otherwise there is no recursive call and the call that returns no
\* error returns the first-pass list, or the suggestions when that is empty.
C31_RecursionOnlyWhenAllowed ==
  /\ recProbes # <<>> => RecursionAllowed
  /\ pc = "returned" /\ ret.err = <<>> /\ ~RecursionAllowed
       => /\ recProbes = <<>>
          /\ ret.subdomains = IF FirstPassList = <<>> THEN CommonSubdomains(domain)
                              ELSE FirstPassList

C31_Witness ==
  /\ pc = "returned"
  /\ ret.err = <<>>
  /\ handed.Recursive
  /\ handed.MaxDepth = 1
  /\ Argument("maxDepth").kind = "number"
  /\ Len(FirstPassList) > 0
  /\ recProbes = <<>>
  /\ ret.subdomains = FirstPassList

\* the timeout RunEnumeration works with: the one handed in, 120 in place of
\* one that is not positive
PrimaryTimeout == IF handed.Timeout <= 0 THEN 120 ELSE handed.Timeout

\* half of the primary timeout, rounded down, and no less than 30
ProbeSeconds == IF PrimaryTimeout \div 2 < 30 THEN 30 ELSE PrimaryTimeout \div 2

\* C32: every recursive probe runs under a timeout of max(floor(T/2), 30)
\* seconds, T the effective primary timeout (the configured one, or 120 when
\* that is not positive); the value is the same for every frontier entry and
\* does not shrink as probes run.
C32_ProbeTimeout ==
  /\ pc = "probe" => recursiveCtx.hasDeadline /\ recursiveCtx.seconds = ProbeSeconds
  /\ pc = "recurse" /\ recProbes # <<>> => recursiveCtx.seconds = ProbeSeconds

C32_Witness ==
  /\ pc = "probe"
  /\ Len(recProbes) = 2
  /\ handed.Timeout = 59
  /\ recursiveCtx.seconds = 30
  /\ recursiveCtx.err = NilErr

\* a probe under half of the 120 seconds that stand for a timeout of zero
C32_WitnessOfZero ==
  /\ pc = "probe"
  /\ handed.Timeout = 0
  /\ recursiveCtx.seconds = 60

\* what the successful probes of the call reported, less the names equal,
\* ignoring case, to the entry probed
ReportedByProbes ==
  UNION {{sub \in probeLog[j].keys : ~EqualFold(sub, probeLog[j].sub)} :
           j \in {k \in 1..Len(probeLog) : probeLog[k].err = NilErr}}

\* C33: after the recursion the returned list is, as a set, the first-pass
\* list united with, for every successfully probed entry s, what the provider
\* reported for s less the names equal to s ignoring case: no first-pass
\* subdomain is removed and nothing unreported is added.
C33_RecursionIsUnion ==
  pc = "returned" /\ recProbes # <<>>
    => /\ ret.err = <<>>
       /\ Range(ret.subdomains) = Range(FirstPassList) \cup ReportedByProbes
       /\ Len(ret.subdomains) = Cardinality(Range(ret.subdomains))

C33_Witness ==
  /\ pc = "returned"
  /\ Len(probeLog) = 2
  /\ probeLog[1] = [sub |-> SubA, err |-> NilErr, keys |-> {SubAUp}]
  /\ probeLog[2] = [sub |-> SubB, err |-> NilErr, keys |-> {SubB, Dot(<<99>>, SubB)}]
  /\ Range(ret.subdomains) = {SubA, SubB, Dot(<<99>>, SubB)}

\* the provider calls of RunEnumeration that have started and not returned:
\* the probes, a call of the retry loop being made and answered in one step
InFlight == Len(recProbes) - Len(probeLog)

\* C34: at most one provider call is in flight at any time: an attempt of the
\* retry loop starts when every earlier one has returned, a recursive probe
\* starts only after the retry loop has ended and the previous probe has
\* returned, and the context of a probe is released before the next starts.
C34_OneCallInFlight ==
  /\ InFlight \in {0, 1}
  /\ InFlight = 1 <=> pc = "probe"
  /\ pc = "attempt" => Len(callLog) = attempt - 1 /\ recProbes = <<>>
  /\ pc = "sleep" => Len(callLog) = attempt /\ recProbes = <<>>
  /\ pc \in {"recurse", "probe"}
       => /\ callLog # <<>>
          /\ Qualifies(callLog[Len(callLog)])
          /\ enumErr = NilErr
  /\ pc = "probe" => Len(probeLog) = Len(recProbes) - 1
  /\ pc = "recurse" /\ recProbes # <<>> => recursiveCtx.err # NilErr

C34_Witness ==
  /\ pc = "probe"
  /\ Len(callLog) = 3
  /\ Len(recProbes) = 2
  /\ Len(probeLog) = 1
  /\ recursiveCtx.err = NilErr

\* C35: RunEnumeration derives a deadline from the configured timeout (120
\* seconds when that is not positive) only when the caller's context carries
\* none; on the HTTP paths the context of the handler always has a deadline,
\* every primary attempt runs under it, and the timeout argument neither
\* extends nor shortens it.
C35_CallerDeadlineGoverns ==
  pc \in {"attempt", "sleep"}
    => /\ ctx.hasDeadline
       /\ handler = "mcpHandler" => ctx.seconds = serverTimeout
       /\ handler = "MCPHandler" => ctx.seconds = handlerTimeout
       /\ handler = "direct" => ctx.seconds = PrimaryTimeout

C35_Witness ==
  /\ pc = "attempt"
  /\ attempt = maxRetries
  /\ handler = "mcpHandler"
  /\ handed.Timeout = 5
  /\ ctx.seconds = serverTimeout
  /\ ctx.err = NilErr

\* a caller without a deadline, and a timeout of zero handed in
C35_WitnessDerived ==
  /\ pc = "attempt"
  /\ handler = "direct"
  /\ handed.Timeout = 0
  /\ ctx.seconds = 120

\* request element i is a tools.call of enumerateSubdomains with a non-empty
\* string domain
ValidCall(i) ==
  /\ i \in 1..Len(reqs)
  /\ CallsEnumerate(i)
  /\ ~LacksDomain(i)

\* C36: the enumeration provider is invoked only for a request that parsed
\* as JSON, has method tools.call, names the tool enumerateSubdomains and
\* carries a non-empty string domain; a request that fails parsing, routing
\* or the validation of the required argument is answered without any
\* provider call.
C36_ProviderOnlyForValidCalls ==
  /\ InCall \/ callLog # <<>> \/ recProbes # <<>>
       => /\ ValidCall(idx)
          /\ handler # "direct" => BodyDecoded /\ http.body.wellFormed
  /\ \A r \in 1..Len(returns) : ValidCall(returns[r].elem)
  /\ pc = "done" /\ (\A i \in 1..Len(reqs) : ~ValidCall(i)) => primaryCalls = 0

C36_Witness ==
  /\ Served
  /\ IsBatch
  /\ Len(reqs) = 2
  /\ ~ValidCall(1)
  /\ ValidCall(2)
  /\ AnswersTo(1) # {}
  /\ Len(returns) = 1
  /\ returns[1].elem = 2
  /\ primaryCalls = maxRetries

\* a single tools.call that names another tool, answered without a call
C36_WitnessRefused ==
  /\ Served
  /\ Len(reqs) = 1
  /\ reqs[1].Method = "tools.call"
  /\ ToolNameOf(reqs[1].Params) = "nonExistentTool"
  /\ ~LacksDomain(1)
  /\ AnswersTo(1) # {}
  /\ primaryCalls = 0

\* the provider's result of the first pass holds no name but the queried
\* domain's
OnlyTheDomain == \A sub \in resultMap : EqualFold(sub, domain)

\* C37: whenever RunEnumeration returns no error its list is not empty: it
\* holds a discovered subdomain, or it is the list of the 10 suggestions,
\* which is returned exactly when no subdomain other than the queried domain
\* remains after all passes, the provider's only result being the queried
\* domain included.
C37_ListNeverEmpty ==
  pc = "returned" /\ ret.err = <<>>
    => /\ Len(ret.subdomains) > 0
       /\ IF OnlyTheDomain
          THEN /\ ret.subdomains = CommonSubdomains(domain)
               /\ Len(ret.subdomains) = 10
               /\ recProbes = <<>>
          ELSE /\ ret.subdomains # CommonSubdomains(domain)
               /\ \A sub \in resultMap :
                    ~EqualFold(sub, domain) => sub \in Range(ret.subdomains)

C37_Witness ==
  /\ pc = "returned"
  /\ ret.err = <<>>
  /\ resultMap = {DomEx}
  /\ handed.Recursive
  /\ handed.MaxDepth = 2
  /\ Len(ret.subdomains) = 10
  /\ ret.subdomains[1] = Dot(<<119, 119, 119>>, DomEx)

\* the steps of a call of HandleToolsCall made directly, not by a handler
DirectNext ==
  \/ directCall
  \/ ProcessSingleRequest
  \/ RunEnumeration
  \/ EnumerateAttempt
  \/ RetryPause
  \/ RecursiveProbe
  \/ ProbeReturns
  \/ ProbeDeadline
  \/ RecursionDone
  \/ HandleToolsCall
  \/ callerReturns
  \/ ContextDone
  \/ handlerReturns

\* every provider call returns, every pause ends and RunEnumeration goes on
\* with its next statement
FairSpec ==
  /\ Init /\ [][DirectNext]_vars
  /\ WF_vars(EnumerateAttempt)
  /\ WF_vars(RetryPause)
  /\ WF_vars(RecursiveProbe)
  /\ WF_vars(ProbeReturns)
  /\ WF_vars(RecursionDone)

\* RunEnumeration is past the creation of its runner and has not returned
Enumerating == pc \in {"attempt", "sleep", "recurse", "probe"}

\* C38: provided every provider call returns, RunEnumeration terminates,
\* whatever the input and the provider's answers, after at most 3 primary
\* provider calls, at most 2 pauses between attempts and at most 10
\* recursive provider calls; what the recursive probes discover never
\* enlarges the set of entries to be probed.
C38_Terminates ==
  /\ [](Len(callLog) <= 3 /\ pauses <= 2 /\ Len(recProbes) <= 10)
  /\ [][Enumerating /\ recProbes # <<>> => subdomains' = subdomains \/ pc' = "returned"]_vars
  /\ [](Range(recProbes) \subseteq resultMap)
  /\ Enumerating ~> (pc = "returned")

C38_Witness ==
  /\ pc = "returned"
  /\ Len(callLog) = 3
  /\ pauses = 2
  /\ Len(recProbes) = 10
  /\ Len(probeLog) = 10
  /\ Cardinality(Range(ret.subdomains)) > Len(FirstPassList)

\* request element i is a valid call of enumerateSubdomains sent without an
\* id member
NotifiedCall(i) == ValidCall(i) /\ http.body.elems[i].id = AbsentID

\* RunEnumeration ran for request element i and has returned
Enumerated(i) == \E r \in 1..Len(returns) : returns[r].elem = i

\* the elements of a request are processed one after the other, a later one
\* only after RunEnumeration has returned for the earlier ones, and under the
\* one context the handler made for the request
OneAfterTheOther ==
  handler = "mcpHandler" /\ pc \notin {"idle", "done"}
    => /\ \A r \in 1..Len(returns) : returns[r].elem < idx
       /\ \A k \in 1..Len(answers) : answers[k] < idx
       /\ \A i \in 1..Len(reqs) : i < idx /\ ValidCall(i) => Enumerated(i)
       /\ ctx.hasDeadline /\ ctx.seconds = serverTimeout
       /\ sawDone => ctx.err # NilErr

\* C39: a tools.call sent without an id, with a valid tool name and domain,
\* still runs the whole enumeration before its result is discarded; in a
\* batch each later element is processed only after that enumeration has
\* finished, and under the same request context.
C39_NotificationEnumeratesThenDiscarded ==
  /\ Served => \A i \in 1..Len(reqs) :
                 NotifiedCall(i) => Enumerated(i) /\ AnswersTo(i) = {}
  /\ OneAfterTheOther

\* the same for the requests that come as a batch
C39_InBatch ==
  /\ Served /\ IsBatch => \A i \in 1..Len(reqs) :
                            NotifiedCall(i) => Enumerated(i) /\ AnswersTo(i) = {}
  /\ OneAfterTheOther

\* a batch whose first element is such a notification and whose second
\* element was answered after three attempts for the first
C39_BatchReached ==
  /\ Served
  /\ IsBatch
  /\ Len(reqs) = 2
  /\ NotifiedCall(1)
  /\ Enumerated(1)
  /\ AnswersTo(1) = {}
  /\ AnswersTo(2) # {}
  /\ primaryCalls >= maxRetries

====
